---- MODULE Spec2Model ----
(***************************************************************************)
(* Model of the CPLEX-based CVRP solver (src/src/cplex/solver_.py):        *)
(* VRPSolver.__init__ builds the constraint system over edge_var and       *)
(* order_var, VRPSolver.solve hands it to the engine and decodes the       *)
(* returned edge_var values into one route per vehicle.                    *)
(*                                                                         *)
(* The engine (docplex Model.solve) is external.  It is modelled by the    *)
(* contract it is assumed to honour, recorded in the variable `engine`:    *)
(*   "sound" - returns some assignment satisfying every constraint, or     *)
(*             none when there is no such assignment;                      *)
(*   "flow"  - as "sound" but only for the degree, depot-balance, vehicle  *)
(*             flow and depot-visit constraints (no capacity, no MTZ);     *)
(*   "any"   - returns any in-domain 0/1 assignment with at most           *)
(*             MaxSelected ones (a defective engine).                      *)
(* Distances are real-valued square roots and only feed the objective;     *)
(* the objective value is kept as an opaque text in the solution string.   *)
(***************************************************************************)
EXTENDS Integers, Sequences, FiniteSets

VARIABLES p, engine, pc, error, edge_var, v, current_node,
          vehicle_i_route, vehicle_routes, sol_string

vars == <<p, engine, pc, error, edge_var, v, current_node,
          vehicle_i_route, vehicle_routes, sol_string>>

(* ------------------------------ bounds --------------------------------- *)
MaxCustomers == 3
MaxVehicles == 2
MaxEdgeVars == 12
MaxCapacity == 2
MaxDemand == 2
MaxSelected == 3
MaxTrace == 6

(* ------------------------------ helpers -------------------------------- *)
\* sum of the first k elements of s
RECURSIVE SumFirst(_, _)
SumFirst(s, k) == IF k = 0 THEN 0 ELSE SumFirst(s, k - 1) + s[k]

\* model.sum(list)
SumSeq(s) == SumFirst(s, Len(s))

RECURSIVE Flatten(_)
Flatten(ss) == IF ss = <<>> THEN <<>> ELSE Head(ss) \o Flatten(Tail(ss))

Nodes(q) == 0..(q.num_customers - 1)
Vehicles(q) == 0..(q.num_vehicles - 1)

(* --------------------------- VRPInstance ------------------------------- *)
\* the parsed instances (src/src/ortools/vrp_instance.py); the depot carries
\* no demand
\* the engine is given at most MaxEdgeVars free edge variables
ShapeOK(n, m) == m * n * (n - 1) <= MaxEdgeVars

InstancesOfSize(n) ==
    { [num_customers |-> n, num_vehicles |-> m, vehicle_capacity |-> cap,
       demand_of_customer |-> d] :
         m \in { k \in 1..MaxVehicles : ShapeOK(n, k) },
         cap \in 1..MaxCapacity,
         d \in { f \in [0..(n - 1) -> 0..MaxDemand] : f[0] = 0 } }

Instances == UNION { InstancesOfSize(n) : n \in 2..MaxCustomers }

(* ------------------- variables of the model (lines 14-29) -------------- *)
\* edge_var[v][i][j] has domain {0,1} for i # j and {0} for i = j
EdgeUpper(i, j) == IF i # j THEN 1 ELSE 0

OrderLower(q, i) == IF i = 0 THEN 0 ELSE 1

OrderUpperBad(q, i) == IF i = 0 THEN 0 ELSE q.num_customers - 2
OrderUpper(q, i) == IF i = 0 THEN 0 ELSE q.num_customers - 1

OrderAssignments(q) ==
    [Vehicles(q) -> { o \in [Nodes(q) -> 0..(q.num_customers - 1)] :
                        \A i \in Nodes(q) : /\ o[i] >= OrderLower(q, i)
                                            /\ o[i] <= OrderUpper(q, i) }]

\* the free variables edge_var[w][i][j], i # j, in creation order (lines 15-19)
ArcSeq(q) ==
    LET n == q.num_customers
        m == q.num_vehicles
        IsFree(a) == EdgeUpper(a[2], a[3]) = 1
    IN  SelectSeq([k \in 1..(m * n * n) |->
                     << (k - 1) \div (n * n), ((k - 1) \div n) % n, (k - 1) % n >>],
                  IsFree)

\* the sets of at most k elements of s that lie at positions >= lo
RECURSIVE ArcSets(_, _, _)
ArcSets(s, k, lo) ==
    IF k = 0 \/ lo > Len(s) THEN { {} }
    ELSE { {} } \cup
         UNION { { {s[i]} \cup r : r \in ArcSets(s, k - 1, i + 1) } : i \in lo..Len(s) }

\* solution_value of edge_var[w][i][j] under the selection e
Val(e, w, i, j) == IF <<w, i, j>> \in e THEN 1 ELSE 0

FreeArcs(q) == { ArcSeq(q)[k] : k \in 1..Len(ArcSeq(q)) }

\* every in-domain 0/1 assignment of edge_var, as the set of arcs valued 1
EdgeAssignments(q) == SUBSET FreeArcs(q)

\* the in-domain 0/1 assignments of edge_var with at most MaxSelected ones
SelectionsOfShape ==
    [n \in 2..MaxCustomers, m \in 1..MaxVehicles |->
        IF ShapeOK(n, m)
        THEN ArcSets(ArcSeq([num_customers |-> n, num_vehicles |-> m]), MaxSelected, 1)
        ELSE {}]

BoundedAssignments(q) == SelectionsOfShape[q.num_customers, q.num_vehicles]

(* ------------------- numpy slices of edge_var -------------------------- *)
\* e[w, c, :]
Row(q, e, w, c) == [k \in 1..q.num_customers |-> Val(e, w, c, k - 1)]
\* e[w, :, c]
Col(q, e, w, c) == [k \in 1..q.num_customers |-> Val(e, w, k - 1, c)]
\* e[:, :, c].flatten()
AllInto(q, e, c) == Flatten([k \in 1..q.num_vehicles |-> Col(q, e, k - 1, c)])
\* e[:, c, :].flatten()
AllOutOf(q, e, c) == Flatten([k \in 1..q.num_vehicles |-> Row(q, e, k - 1, c)])

\* scal_prod(terms, coefs)
ScalProd(terms, coefs) == SumSeq([k \in 1..Len(terms) |-> terms[k] * coefs[k - 1]])

(* ------------------- constraints (lines 34-72) ------------------------- *)
\* lines 38-40: every non-depot node has global in-flow 1 and out-flow 1
Degree(q, e) ==
    \A c \in Nodes(q) \ {0} : /\ SumSeq(AllInto(q, e, c)) = 1
                              /\ SumSeq(AllOutOf(q, e, c)) = 1

\* lines 41-42
DepotBalance(q, e) == SumSeq(AllInto(q, e, 0)) = SumSeq(AllOutOf(q, e, 0))

\* lines 45-48
PerVehicleFlowBad(q, e) ==
    \A c \in Nodes(q) : \A w \in Vehicles(q) :
        SumSeq(AllInto(q, e, c)) = SumSeq(AllOutOf(q, e, c))
PerVehicleFlow(q, e) ==
    \A c \in Nodes(q) : \A w \in Vehicles(q) :
        SumSeq(Col(q, e, w, c)) = SumSeq(Row(q, e, w, c))

\* lines 51-54
DepotOnce(q, e) ==
    \A w \in Vehicles(q) :
        /\ SumSeq(Row(q, e, w, 0)) <= 1
        /\ SumSeq(Col(q, e, w, 0)) <= 1
        /\ SumSeq(Row(q, e, w, 0)) = SumSeq(Col(q, e, w, 0))

\* lines 58-63: sum over c of scal_prod(edge_var[v, c, :], demand_of_customer)
CapacityLHSOut(q, e, w) ==
    SumSeq([k \in 1..q.num_customers |->
               q.demand_of_customer[k - 1] * SumSeq(Row(q, e, w, k - 1))])
CapacityLHS(q, e, w) ==
    SumSeq([k \in 1..q.num_customers |->
               ScalProd(Row(q, e, w, k - 1), q.demand_of_customer)])

\* line 64
CapacityBad(q, e) ==
    \A w \in Vehicles(q) \ {q.num_vehicles - 1} :
        CapacityLHS(q, e, w) <= q.vehicle_capacity
CapacityFleet(q, e) ==
    \A w \in Vehicles(q) :
        CapacityLHS(q, e, w) <= q.vehicle_capacity * q.num_vehicles
Capacity(q, e) ==
    \A w \in Vehicles(q) : CapacityLHS(q, e, w) <= q.vehicle_capacity

\* lines 67-72
MTZBad(q, e, o) ==
    \A w \in Vehicles(q) : \A i \in 1..(q.num_customers - 1) :
        \A j \in 1..(q.num_customers - 1) :
            o[w][i] >= o[w][j] - q.num_customers * (1 - Val(e, w, i, j))
MTZ(q, e, o) ==
    \A w \in Vehicles(q) : \A i \in 1..(q.num_customers - 1) :
        \A j \in 1..(q.num_customers - 1) :
            o[w][i] >= o[w][j] + 1 - q.num_customers * (1 - Val(e, w, i, j))

\* constraints 1-4 of the model
FlowConstraints(q, e) ==
    /\ Degree(q, e)
    /\ DepotBalance(q, e)
    /\ PerVehicleFlow(q, e)
    /\ DepotOnce(q, e)

\* every constraint added by __init__, for some in-bounds order_var values
AllConstraints(q, e) ==
    /\ FlowConstraints(q, e)
    /\ Capacity(q, e)
    /\ \E o \in OrderAssignments(q) : MTZ(q, e, o)

\* the selections that satisfy constraints 1-4; these constraints read only
\* num_customers and num_vehicles
FlowSolutionsOfShape ==
    [n \in 2..MaxCustomers, m \in 1..MaxVehicles |->
        IF ShapeOK(n, m)
        THEN { e \in EdgeAssignments([num_customers |-> n, num_vehicles |-> m]) :
                 FlowConstraints([num_customers |-> n, num_vehicles |-> m], e) }
        ELSE {}]

FlowSolutions(q) == FlowSolutionsOfShape[q.num_customers, q.num_vehicles]

\* what the engine may hand back under each contract
Solutions(c, q) ==
    CASE c = "sound" -> { e \in FlowSolutions(q) : AllConstraints(q, e) }
      [] c = "flow"  -> FlowSolutions(q)
      [] c = "any"   -> BoundedAssignments(q)

(* ------------------- text conversions ---------------------------------- *)
Digits == <<"0", "1", "2", "3", "4", "5", "6", "7", "8", "9">>

\* str(n) for n >= 0, as a sequence of characters
RECURSIVE Str(_)
Str(n) == IF n < 10 THEN <<Digits[n + 1]>>
          ELSE Str(n \div 10) \o <<Digits[(n % 10) + 1]>>

\* sep.join(parts)
RECURSIVE Join(_, _)
Join(sep, parts) ==
    IF parts = <<>> THEN <<>>
    ELSE IF Len(parts) = 1 THEN parts[1]
    ELSE parts[1] \o sep \o Join(sep, Tail(parts))

\* round(objective_value, 1), kept opaque
ObjectiveText == <<"o", "b", "j">>

\* lines 106-108
SolString(routes) ==
    ObjectiveText \o <<" ">> \o Str(1) \o <<"\n">>
      \o Flatten([k \in 1..Len(routes) |-> Join(<<" ">>, routes[k]) \o <<"\n">>])

\* list.index(1); the caller guarantees that 1 occurs
IndexOfOne(row) == (CHOOSE k \in 1..Len(row) :
                        row[k] = 1 /\ \A l \in 1..(k - 1) : row[l] # 1) - 1

HasOne(row) == \E k \in 1..Len(row) : row[k] = 1

\* line 94
UnusedRoute == <<Str(0), Str(0)>>

\* list.append
AddRouteBad(routes, r) == <<r>> \o routes
AddRoute(routes, r) == Append(routes, r)

(* ------------------- state machine ------------------------------------- *)
NoEdges == {}

Init ==
    /\ p \in Instances
    /\ engine \in {"sound", "flow", "any"}
    /\ pc = "new"
    /\ error = "none"
    /\ edge_var = NoEdges
    /\ v = 0
    /\ current_node = 0
    /\ vehicle_i_route = <<>>
    /\ vehicle_routes = <<>>
    /\ sol_string = <<>>

\* VRPSolver.__init__: no input is rejected, the model is always built
Build ==
    /\ pc = "new"
    /\ pc' = "built"
    /\ UNCHANGED <<p, engine, error, edge_var, v, current_node,
                   vehicle_i_route, vehicle_routes, sol_string>>

\* line 84-86: the engine returns an assignment
SolveFound ==
    /\ pc = "built"
    /\ \E e \in Solutions(engine, p) : edge_var' = e
    /\ pc' = "for"
    /\ v' = 0
    /\ vehicle_routes' = <<>>
    /\ UNCHANGED <<p, engine, error, current_node, vehicle_i_route, sol_string>>

\* lines 84, 110-111: the engine has no assignment
SolveNone ==
    /\ pc = "built"
    /\ Solutions(engine, p) = {}
    /\ pc' = "raised"
    /\ error' = "no solution found"
    /\ UNCHANGED <<p, engine, edge_var, v, current_node,
                   vehicle_i_route, vehicle_routes, sol_string>>

\* lines 87-95: vehicle v has no arc out of the depot
VehicleUnused ==
    /\ pc = "for"
    /\ v < p.num_vehicles
    /\ ~ HasOne(Row(p, edge_var, v, 0))
    /\ vehicle_i_route' = <<Str(0)>>
    /\ current_node' = 0
    /\ vehicle_routes' = AddRoute(vehicle_routes, UnusedRoute)
    /\ v' = v + 1
    /\ UNCHANGED <<p, engine, pc, error, edge_var, sol_string>>

\* lines 87-96: vehicle v leaves the depot, enter the while loop
VehicleStart ==
    /\ pc = "for"
    /\ v < p.num_vehicles
    /\ HasOne(Row(p, edge_var, v, 0))
    /\ vehicle_i_route' = <<Str(0)>>
    /\ current_node' = 0
    /\ pc' = "while"
    /\ UNCHANGED <<p, engine, error, edge_var, v, vehicle_routes, sol_string>>

\* lines 98-102: one iteration that does not reach the depot
TraceOn ==
    /\ pc = "while"
    /\ Len(vehicle_i_route) < MaxTrace
    /\ HasOne(Row(p, edge_var, v, current_node))
    /\ LET next_node == IndexOfOne(Row(p, edge_var, v, current_node))
       IN  /\ next_node # 0
           /\ vehicle_i_route' = Append(vehicle_i_route, Str(next_node))
           /\ current_node' = next_node
    /\ UNCHANGED <<p, engine, pc, error, edge_var, v, vehicle_routes, sol_string>>

\* lines 98-104: the iteration that reaches the depot, break, append the route
TraceClose ==
    /\ pc = "while"
    /\ Len(vehicle_i_route) < MaxTrace
    /\ HasOne(Row(p, edge_var, v, current_node))
    /\ LET next_node == IndexOfOne(Row(p, edge_var, v, current_node))
       IN  /\ next_node = 0
           /\ vehicle_i_route' = Append(vehicle_i_route, Str(next_node))
           /\ vehicle_routes' = AddRoute(vehicle_routes, vehicle_i_route')
    /\ v' = v + 1
    /\ pc' = "for"
    /\ UNCHANGED <<p, engine, error, edge_var, current_node, sol_string>>

\* line 98: list.index(1) raises ValueError when the row holds no 1
TraceValueError ==
    /\ pc = "while"
    /\ ~ HasOne(Row(p, edge_var, v, current_node))
    /\ pc' = "raised"
    /\ error' = "ValueError"
    /\ UNCHANGED <<p, engine, edge_var, v, current_node,
                   vehicle_i_route, vehicle_routes, sol_string>>

\* lines 106-109
Return ==
    /\ pc = "for"
    /\ v = p.num_vehicles
    /\ sol_string' = SolString(vehicle_routes)
    /\ pc' = "returned"
    /\ UNCHANGED <<p, engine, error, edge_var, v, current_node,
                   vehicle_i_route, vehicle_routes>>

Next ==
    \/ Build
    \/ SolveFound
    \/ SolveNone
    \/ VehicleUnused
    \/ VehicleStart
    \/ TraceOn
    \/ TraceClose
    \/ TraceValueError
    \/ Return

Spec == Init /\ [][Next]_vars

(* ------------------- reading the results back -------------------------- *)
DigitValue(ch) == CHOOSE d \in 0..9 : Digits[d + 1] = ch

\* int(text) for a non-empty sequence of digit characters
RECURSIVE ParseInt(_)
ParseInt(t) == IF Len(t) = 1 THEN DigitValue(t[1])
               ELSE 10 * ParseInt(SubSeq(t, 1, Len(t) - 1)) + DigitValue(t[Len(t)])

\* the pieces of s that end with sep (cur is the piece being read)
RECURSIVE SplitAt(_, _, _)
SplitAt(s, sep, cur) ==
    IF s = <<>> THEN (IF cur = <<>> THEN <<>> ELSE <<cur>>)
    ELSE IF Head(s) = sep THEN <<cur>> \o SplitAt(Tail(s), sep, <<>>)
    ELSE SplitAt(Tail(s), sep, Append(cur, Head(s)))

LinesOf(s) == SplitAt(s, "\n", <<>>)
TokensOf(line) == SplitAt(line, " ", <<>>)

\* number of positions of route that hold token tok
CountIn(route, tok) == Cardinality({ k \in 1..Len(route) : route[k] = tok })

Visits(routes, c) == SumSeq([k \in 1..Len(routes) |-> CountIn(routes[k], Str(c))])

\* sum of the demands of the non-depot customers listed in route
RouteLoad(q, route) ==
    SumSeq([k \in 1..Len(route) |->
              IF ParseInt(route[k]) = 0 THEN 0
              ELSE q.demand_of_customer[ParseInt(route[k])]])

TotalDemand(q) == SumSeq([k \in 1..q.num_customers |-> q.demand_of_customer[k - 1]])

\* the engine has just returned an assignment (line 85)
Solved == pc = "for" /\ v = 0

Unused(q, e, w) == ~ HasOne(Row(q, e, w, 0))

(* ------------------------------ C1 ------------------------------------- *)
\* C1 (coverage): when the engine honours every constraint, the routes that
\* solve returns list each customer 1..num_customers-1 exactly once overall.
C1_Coverage ==
    (engine = "sound" /\ pc = "returned") =>
        \A c \in 1..(p.num_customers - 1) : Visits(vehicle_routes, c) = 1

C1_Witness ==
    /\ engine = "sound"
    /\ pc = "returned"
    /\ p.num_customers = 3
    /\ Len(vehicle_routes) = 2
    /\ Len(vehicle_routes[1]) = 3
    /\ Len(vehicle_routes[2]) = 3

(* ------------------------------ C2 ------------------------------------- *)
\* C2 (capacity): when the engine honours every constraint, every decoded
\* route carries at most vehicle_capacity.
C2_Capacity ==
    engine = "sound" =>
        \A k \in 1..Len(vehicle_routes) :
            RouteLoad(p, vehicle_routes[k]) <= p.vehicle_capacity

C2_Witness ==
    /\ engine = "sound"
    /\ pc = "returned"
    /\ \E k \in 1..Len(vehicle_routes) :
          /\ Len(vehicle_routes[k]) = 4
          /\ RouteLoad(p, vehicle_routes[k]) = p.vehicle_capacity

(* ------------------------------ C3 ------------------------------------- *)
\* C3 (bounded closure): under constraints 1-4 alone the tracing loop never
\* fails to find a successor, is never still running once num_customers
\* nodes have been appended, and every route it produces starts and ends
\* with the depot and has at most num_customers appended nodes.
C3_BoundedClosure ==
    engine = "flow" =>
        /\ error # "ValueError"
        /\ pc = "while" => Len(vehicle_i_route) - 1 < p.num_customers
        /\ \A k \in 1..Len(vehicle_routes) :
              LET r == vehicle_routes[k]
              IN  /\ r[1] = Str(0)
                  /\ r[Len(r)] = Str(0)
                  /\ Len(r) - 1 <= p.num_customers

C3_Witness ==
    /\ engine = "flow"
    /\ pc = "for"
    /\ p.num_customers = 3
    /\ \E k \in 1..Len(vehicle_routes) :
          Len(vehicle_routes[k]) - 1 = p.num_customers

(* ------------------------------ C4 ------------------------------------- *)
\* C4 (malformed assignment is reported): the tracing loop is never still
\* running after num_customers nodes have been appended without reaching
\* the depot; by then solve has stopped with an error.
C4_MalformedReported ==
    pc = "while" => Len(vehicle_i_route) - 1 < p.num_customers

(* ------------------------------ C5 ------------------------------------- *)
\* C5 (ambiguous successor is rejected): a step of the tracing loop taken at
\* a node with more than one selected outgoing arc ends in an error.
Ambiguous(row) == Cardinality({ k \in 1..Len(row) : row[k] = 1 }) > 1

C5_AmbiguousRejected ==
    [][(pc = "while" /\ Ambiguous(Row(p, edge_var, v, current_node)))
          => pc' = "raised"]_vars

(* ------------------------------ C6 ------------------------------------- *)
\* C6 (one route per vehicle slot): the returned text has, after its first
\* line, one line per vehicle in vehicle order: "0 0" for a vehicle without
\* a selected arc out of the depot, otherwise a line that starts with the
\* depot, continues with that vehicle's successor of the depot and ends
\* with the depot.
C6_OneLinePerVehicle ==
    pc = "returned" =>
        LET lines == LinesOf(sol_string)
        IN  /\ Len(lines) = 1 + p.num_vehicles
            /\ \A w \in Vehicles(p) :
                  LET toks == TokensOf(lines[w + 2])
                  IN  IF Unused(p, edge_var, w)
                      THEN lines[w + 2] = <<"0", " ", "0">>
                      ELSE /\ Len(toks) >= 2
                           /\ toks[1] = Str(0)
                           /\ toks[2] = Str(IndexOfOne(Row(p, edge_var, w, 0)))
                           /\ toks[Len(toks)] = Str(0)

C6_Witness ==
    /\ pc = "returned"
    /\ p.num_vehicles = 2
    /\ Unused(p, edge_var, 0)
    /\ ~ Unused(p, edge_var, 1)
    /\ Len(LinesOf(sol_string)) = 3

(* ------------------------------ C7 ------------------------------------- *)
\* C7 (build-time rejection): an instance with fewer than 2 nodes, no
\* vehicle, or a demand above vehicle_capacity never gets past __init__.
ConfigInvalid(q) ==
    \/ q.num_customers < 2
    \/ q.num_vehicles < 1
    \/ \E i \in Nodes(q) : q.demand_of_customer[i] > q.vehicle_capacity

C7_BuildRejects == ConfigInvalid(p) => pc = "new"

(* ------------------------------ C8 ------------------------------------- *)
\* C8 (over-demand is infeasible): when the total demand exceeds
\* num_vehicles * vehicle_capacity and the engine honours every constraint,
\* solve decodes nothing and returns nothing; it can only raise.
C8_OverDemandInfeasible ==
    (engine = "sound" /\ TotalDemand(p) > p.num_vehicles * p.vehicle_capacity) =>
        /\ pc \in {"new", "built", "raised"}
        /\ error # "ValueError"
        /\ vehicle_routes = <<>>
        /\ sol_string = <<>>

C8_Witness ==
    /\ engine = "sound"
    /\ TotalDemand(p) = p.num_vehicles * p.vehicle_capacity + 1
    /\ \A i \in Nodes(p) : p.demand_of_customer[i] <= p.vehicle_capacity
    /\ pc = "raised"
    /\ error = "no solution found"

(* ------------------------------ C9 ------------------------------------- *)
\* demand weighted by the number of selected arcs of w going out of / into
\* each node
DemandByOutFlow(q, e, w) ==
    SumSeq([k \in 1..q.num_customers |->
              q.demand_of_customer[k - 1] * SumSeq(Row(q, e, w, k - 1))])

DemandByInFlow(q, e, w) ==
    SumSeq([k \in 1..q.num_customers |->
              q.demand_of_customer[k - 1] * SumSeq(Col(q, e, w, k - 1))])

ValidInstance(q) == ~ ConfigInvalid(q) /\ q.demand_of_customer[0] = 0

Orderings(S) ==
    { s \in [1..Cardinality(S) -> S] : \A a, b \in DOMAIN s : a # b => s[a] # s[b] }

\* the customers owned by vehicle w, in the order of perm
TourOf(owner, perm, w) == SelectSeq(perm, LAMBDA c : owner[c] = w)

\* the arcs of the depot-to-depot tour of vehicle w through the customers t
TourArcs(w, t) ==
    IF t = <<>> THEN {}
    ELSE {<<w, 0, t[1]>>, <<w, t[Len(t)], 0>>}
           \cup { <<w, t[k], t[k + 1]>> : k \in 1..(Len(t) - 1) }

PlanArcs(q, owner, perm) == UNION { TourArcs(w, TourOf(owner, perm, w)) : w \in Vehicles(q) }

PlanFits(q, owner, perm) ==
    \A w \in Vehicles(q) :
        LET t == TourOf(owner, perm, w)
        IN  SumSeq([k \in 1..Len(t) |-> q.demand_of_customer[t[k]]]) <= q.vehicle_capacity

\* C10 (no valid solution is cut off): for a valid instance, every plan that
\* gives each customer to one vehicle, orders each vehicle's customers into
\* one depot-to-depot tour and keeps each tour's load within
\* vehicle_capacity yields an edge assignment that satisfies every
\* constraint of the built model for some in-bounds order values; and with
\* no arc selected the MTZ rows, the i = j rows included, hold for all
\* in-bounds order values.
C10_NoValidSolutionCutOff ==
    (pc = "built" /\ engine = "sound" /\ ValidInstance(p)) =>
        /\ \A owner \in [1..(p.num_customers - 1) -> Vehicles(p)] :
              \A perm \in Orderings(1..(p.num_customers - 1)) :
                  PlanFits(p, owner, perm) =>
                      AllConstraints(p, PlanArcs(p, owner, perm))
        /\ \A o \in OrderAssignments(p) : MTZ(p, {}, o)

C10_Witness ==
    /\ pc = "built"
    /\ engine = "sound"
    /\ ValidInstance(p)
    /\ p.num_customers >= 3
    /\ TotalDemand(p) = p.vehicle_capacity
    /\ \E perm \in Orderings(1..(p.num_customers - 1)) :
          LET one == [c \in 1..(p.num_customers - 1) |-> 0]
          IN  /\ PlanFits(p, one, perm)
              /\ Cardinality(PlanArcs(p, one, perm)) = p.num_customers

====
